---- MODULE Spec2Model ----
(***************************************************************************)
(* my-simple-contacts: the contacts application and its database layer.    *)
(*                                                                         *)
(*   src/models.py             get_engine, the module-level engine and     *)
(*                             SessionLocal, get_db_session_context        *)
(*   src/database/connector.py get_connector, connect_with_connector,      *)
(*                             cleanup_connector                           *)
(*   src/main.py               validate_contact and the four routes        *)
(*                                                                         *)
(* Every call into SQLAlchemy or the Cloud SQL connector that does I/O or  *)
(* builds a resource (SessionLocal(), the SELECT 1 probe, commit,          *)
(* rollback, close, dispose, create_engine, Connector()) either returns or *)
(* raises; which one is a nondeterministic choice of the environment.      *)
(***************************************************************************)
EXTENDS Naturals, Sequences, FiniteSets

VARIABLES
    env,           \* os.environ: the set of variable names that are present
    proc,          \* "boot" (models.py not yet imported), "up", "crashed"
    engine,        \* models.engine: an engine record, or None
    SessionLocal,  \* models.SessionLocal: [bind |-> the engine it is bound to]
    _connector,    \* database.connector._connector: 0 (None) or a connector id
    nConnectors,   \* connectors constructed so far (ids 1..nConnectors)
    nEngines,      \* engines constructed so far (ids 1..nEngines)
    db,            \* committed rows of the contacts table, per backend kind
    nextId,        \* the AUTOINCREMENT counter, per backend kind
    lastCall,      \* what the most recent get_engine() call did
    nEntries,      \* entries to get_db_session_context so far
    pc,            \* per thread: where it is in get_db_session_context
    req,           \* per thread: the block the caller runs under the session
    retry_count,   \* per thread: the local retry_count
    session,       \* per thread: the local session (None or a session record)
    exc,           \* per thread: the exception in flight (None if none)
    seen,          \* per thread: the rows the block's query returned
    h,             \* per thread: what this entry has done so far
    route,         \* per thread: the HTTP request being served, or the last
    resp,          \* per thread: the response to it (status 0: none yet)
    observed,      \* per thread: what get_connector read in _connector
    shut,          \* interpreter exit: runs of the hook, close() calls made
    schema,        \* the backends that hold the contacts table; init_db's end
    factory        \* per thread: the sessionmaker line 102 built, unassigned

vars == <<env, proc, engine, SessionLocal, _connector, nConnectors, nEngines,
          db, nextId, lastCall, nEntries, pc, req, retry_count, session, exc,
          seen, h, route, resp, observed, shut, schema, factory>>

globals == <<env, proc, engine, SessionLocal, _connector, nConnectors,
             nEngines, lastCall>>

\* The request and response of the web layer, the value get_connector read,
\* and the record of the interpreter's exit.
web == <<route, resp, observed, shut, schema, factory>>

None == "None"

\* Python's None in a variable that otherwise holds a record.
NoEngine == [id |-> 0, kind |-> None]

NoSession == [id |-> 0, bind |-> NoEngine, adds |-> <<>>, dels |-> {}]

NoRequest == [kind |-> None, name |-> None, address |-> None]

\* A str is the sequence of its characters; NoString is None where a str is
\* expected.
NoString == <<None>>

\* The backends: their stores are distinct.
Kinds == {"sqlite", "mysql"}

\* No request: path is the route, name and address the form fields as sent;
\* before is storage and the number of entries when the request arrived.
NoRoute == [path |-> None, method |-> None, id |-> 0, name |-> NoString,
            address |-> NoString,
            before |-> [db |-> [k \in Kinds |-> {}], nEntries |-> 0]]

\* An empty dict of error messages.
NoErrors == [k \in {} |-> None]

\* No response yet. page is the template rendered or the target of the
\* redirect; errors, name, address and contacts are the template's arguments;
\* flash holds the messages flashed while the request was served, in order.
NoResp == [status |-> 0, page |-> None, errors |-> NoErrors,
           name |-> NoString, address |-> NoString, contacts |-> {},
           flash |-> <<>>]

\* Both backends hold the contacts table, created by an earlier run; init_db
\* (whose create_all then finds nothing to create) is not followed.
Migrated == [tables |-> Kinds, init |-> None]

\* The interpreter has not begun to exit.
\*   managed   _connector when the exit began
\*   runs      runs of cleanup_connector so far
\*   closes    the connectors close() was called on, in order
\*   swallowed the errors of close() that cleanup_connector caught
\*   raised    an exception left cleanup_connector
NoShutdown == [managed |-> 0, runs |-> 0, closes |-> <<>>, swallowed |-> 0,
               raised |-> FALSE]

\* An exception is <<what raised it, which attempt>>; NoExc: none in flight.
NoExc == <<None, 0>>

Threads == DOMAIN pc

(***************************************************************************)
(* Bounds of the model.                                                    *)
(***************************************************************************)
MaxEntries == 3

Names == {"John Doe", "Jane Smith"}

Addresses == {"123 Main Street, New York, NY 10001"}

(***************************************************************************)
(* Configuration.                                                          *)
(***************************************************************************)
\* The four names get_engine tests and connect_with_connector reads.
ManagedKeys == {"CONTACTS_INSTANCE_CONNECTION_NAME", "CONTACTS_DB_USER",
                "CONTACTS_DB_PASS", "CONTACTS_DB_NAME"}

\* The same four names without the CONTACTS_ prefix: names the code never reads.
BareKeys == {"INSTANCE_CONNECTION_NAME", "DB_USER", "DB_PASS", "DB_NAME"}

\* Every environment over the eight names.
Environments == SUBSET (ManagedKeys \cup BareKeys)

\* The environments the application is run in: local development (none of the
\* names set) and production (the four of ManagedKeys set).
Deployments == {{}, ManagedKeys}

\* What the environment makes fail during one get_engine() call.
Faults == [connector : BOOLEAN, managed : BOOLEAN, local : BOOLEAN,
           fallback : BOOLEAN]

(***************************************************************************)
(* database/connector.py                                                   *)
(***************************************************************************)
\* get_connector(): builds the process-wide Connector when _connector is None.
\* c is _connector; fails: Connector(...) raises.
get_connector(c, fails) ==
    IF c # 0 THEN [raised |-> FALSE, connector |-> c, built |-> FALSE]
    ELSE IF fails THEN [raised |-> TRUE, connector |-> c, built |-> FALSE]
    ELSE [raised |-> FALSE, connector |-> nConnectors + 1, built |-> TRUE]

\* The names connect_with_connector looks up in os.environ, in order.
ConnectorKeys == <<"CONTACTS_INSTANCE_CONNECTION_NAME", "CONTACTS_DB_USER",
                   "CONTACTS_DB_PASS", "CONTACTS_DB_NAME">>

\* connect_with_connector(): os.environ[...] four times (KeyError on the first
\* missing name), get_connector(), sqlalchemy.create_engine("mysql+pymysql://").
\*   read  the names it read from os.environ before returning or raising
connect_with_connector(e, c, f) ==
    LET missing == {i \in 1..Len(ConnectorKeys) : ConnectorKeys[i] \notin e}
        nread   == IF missing = {} THEN Len(ConnectorKeys)
                   ELSE CHOOSE i \in missing : \A j \in missing : i <= j
        read    == {ConnectorKeys[i] : i \in 1..nread}
        gc      == get_connector(c, f.connector)
    IN  IF missing # {}
        THEN [raised |-> TRUE, kind |-> None, connector |-> c, built |-> FALSE,
              read |-> read]
        ELSE IF gc.raised
        THEN [raised |-> TRUE, kind |-> None, connector |-> c, built |-> FALSE,
              read |-> read]
        ELSE [raised |-> f.managed,
              kind |-> IF f.managed THEN None ELSE "mysql",
              connector |-> gc.connector, built |-> gc.built, read |-> read]

(***************************************************************************)
(* models.py: get_engine                                                   *)
(***************************************************************************)
\* Mutant of UseCloudSql: the test looks for the names without the prefix.
UseCloudSqlBare(e) == \A k \in BareKeys : k \in e

\* The test of line 37: all four names are in os.environ.
UseCloudSql(e) == \A k \in ManagedKeys : k \in e

\* Lines 50-54, the handler: create_engine('sqlite:///contacts.db') once more,
\* outside any try.
Fallback(path, conn, built, read, f) ==
    [path |-> path, threw |-> TRUE, raised |-> f.fallback,
     kind |-> IF f.fallback THEN None ELSE "sqlite",
     connector |-> conn, built |-> built, read |-> read]

\* get_engine(): the result is
\*   path      "managed" (line 45 ran: connect_with_connector was called) or
\*             "local" (line 49 ran)
\*   threw     a step inside the try raised
\*   raised    an exception left get_engine
\*   kind      the kind of the engine returned (None when raised)
\*   connector the value of _connector afterwards; built: a Connector was made
\*   read      the names connect_with_connector read from os.environ
get_engine(e, c, f) ==
    LET cw == connect_with_connector(e, c, f)
    IN  IF UseCloudSql(e)
        THEN IF cw.raised
             THEN Fallback("managed", cw.connector, cw.built, cw.read, f)
             ELSE [path |-> "managed", threw |-> FALSE, raised |-> FALSE,
                   kind |-> cw.kind, connector |-> cw.connector,
                   built |-> cw.built, read |-> cw.read]
        ELSE IF f.local
             THEN Fallback("local", c, FALSE, {}, f)
             ELSE [path |-> "local", threw |-> FALSE, raised |-> FALSE,
                   kind |-> "sqlite", connector |-> c, built |-> FALSE,
                   read |-> {}]

\* What lastCall keeps of a get_engine() call.
CallRecord(r) == [path |-> r.path, threw |-> r.threw, raised |-> r.raised,
                  kind |-> r.kind, read |-> r.read]

NoCall == [path |-> None, threw |-> FALSE, raised |-> FALSE, kind |-> None,
           read |-> {}]

\* sessionmaker(autocommit=False, autoflush=False, bind=eng)
sessionmaker(eng) == [bind |-> eng]

(***************************************************************************)
(* The state before models.py is imported.                                 *)
(***************************************************************************)
\* h[t], the record of one entry:
\*   tag       the number of the entry (0: the thread never entered)
\*   attempts  the outcome of each acquisition attempt, in order
\*   disposes  engine.dispose() calls; built: ids of the engines it rebuilt
\*   rebinds   assignments to SessionLocal
\*   made      ids of the sessions it constructed; closed: those of the
\*             sessions close() was called on
\*   blockRuns times the caller's block ran; block: how the block ended
\*   commits, rollbacks  calls of session.commit(), session.rollback()
\*   committed the commit returned; newIds: the ids storage assigned in it
\*   raised    the exception that left the context manager (NoExc: none)
NoHistory == [tag |-> 0, attempts |-> <<>>, disposes |-> 0, built |-> <<>>,
              rebinds |-> 0, made |-> {}, closed |-> {}, blockRuns |-> 0, block |-> None,
              pending |-> {},
              commits |-> 0, committed |-> FALSE, rollbacks |-> 0,
              newIds |-> <<>>, raised |-> NoExc]

\* Everything but the request being served and the rows in storage.
InitLayer(T, E) ==
    /\ env \in E
    /\ proc = "boot"
    /\ engine = NoEngine
    /\ SessionLocal = sessionmaker(NoEngine)
    /\ _connector = 0
    /\ nConnectors = 0
    /\ nEngines = 0
    /\ lastCall = NoCall
    /\ nEntries = 0
    /\ pc = [t \in T |-> "idle"]
    /\ req = [t \in T |-> NoRequest]
    /\ retry_count = [t \in T |-> 0]
    /\ session = [t \in T |-> NoSession]
    /\ exc = [t \in T |-> NoExc]
    /\ seen = [t \in T |-> {}]
    /\ h = [t \in T |-> NoHistory]
    /\ resp = [t \in T |-> NoResp]
    /\ observed = [t \in T |-> 0]
    /\ shut = NoShutdown
    /\ factory = [t \in T |-> sessionmaker(NoEngine)]

\* The application before its first request, on empty storage.
InitOn(T, E) ==
    /\ InitLayer(T, E)
    /\ route = [t \in T |-> NoRoute]
    /\ db = [k \in Kinds |-> {}]
    /\ nextId = [k \in Kinds |-> 1]
    /\ schema = Migrated

Init == InitOn({1}, Deployments)

locals == <<pc, req, retry_count, session, exc, seen, h>>

(***************************************************************************)
(* models.py lines 58-59: engine = get_engine(); SessionLocal = ...        *)
(***************************************************************************)
Boot ==
    /\ proc = "boot"
    /\ \E f \in Faults :
         LET r == get_engine(env, _connector, f)
         IN  /\ lastCall' = CallRecord(r)
             /\ _connector' = r.connector
             /\ nConnectors' = IF r.built THEN nConnectors + 1 ELSE nConnectors
             /\ IF r.raised
                THEN /\ proc' = "crashed"
                     /\ UNCHANGED <<engine, SessionLocal, nEngines>>
                ELSE /\ proc' = "up"
                     /\ nEngines' = nEngines + 1
                     /\ engine' = [id |-> nEngines + 1, kind |-> r.kind]
                     /\ SessionLocal' =
                            sessionmaker([id |-> nEngines + 1, kind |-> r.kind])
    /\ UNCHANGED <<env, db, nextId, nEntries>>
    /\ UNCHANGED locals
    /\ UNCHANGED web

\* A direct call of get_engine() whose result the caller keeps to itself, as
\* tests/test_integration.py (lines 31 and 45) makes it.
GetEngineCall ==
    /\ proc = "up"
    /\ \E f \in Faults :
         LET r == get_engine(env, _connector, f)
         IN  /\ lastCall' = CallRecord(r)
             /\ _connector' = r.connector
             /\ nConnectors' = IF r.built THEN nConnectors + 1 ELSE nConnectors
    /\ UNCHANGED <<env, proc, engine, SessionLocal, nEngines, db, nextId,
                   nEntries>>
    /\ UNCHANGED locals
    /\ UNCHANGED web

(***************************************************************************)
(* models.py: get_db_session_context                                       *)
(***************************************************************************)
max_retries == 3

\* The blocks a caller runs under the session: add one Contact, or query all.
Requests == [kind : {"add"}, name : Names, address : Addresses]
            \cup {[kind |-> "read", name |-> None, address |-> None]}

\* The exceptions, by what raised them.
FailedError == <<"failed", 0>>
AcquireError(k) == <<"acquire", k>>
CloseError == <<"close", 0>>
DisposeError == <<"dispose", 0>>
EngineError == <<"get_engine", 0>>
BlockError == <<"block", 0>>
NoTableError == <<"no such table", 0>>
CommitError == <<"commit", 0>>
RollbackError == <<"rollback", 0>>

\* SessionLocal(): a new session bound to the factory's engine; the k-th
\* session of an entry has id k.
NewSession(k) == [id |-> k, bind |-> SessionLocal.bind, adds |-> <<>>,
                  dels |-> {}]

\* Mutant of Exhausted: the bound is tested with > for >=.
ExhaustedLate(n) == n > max_retries

\* Line 92: the retry bound is reached.
Exhausted(n) == n >= max_retries

\* Mutant of CloseSession: the session is dropped without close().
CloseSessionSkip(done, s) == done

\* session.close() at lines 88-89 and 116-117: the sessions close() has been
\* called on, after `if session is not None: session.close()` on s.
CloseSession(done, s) == IF s # NoSession THEN done \cup {s.id} ELSE done

\* The exception leaves the generator: control is back in the caller.
Propagate(t, e) ==
    /\ pc' = [pc EXCEPT ![t] = "exit"]
    /\ exc' = [exc EXCEPT ![t] = e]

\* with get_db_session_context() as session: the generator starts (lines
\* 77-79) for a caller whose block is r; max bounds the entries of a run.
Begin(t, r, max) ==
    /\ proc = "up"
    /\ pc[t] = "idle"
    /\ nEntries < max
    /\ nEntries' = nEntries + 1
    /\ req' = [req EXCEPT ![t] = r]
    /\ pc' = [pc EXCEPT ![t] = "try"]
    /\ retry_count' = [retry_count EXCEPT ![t] = 0]
    /\ session' = [session EXCEPT ![t] = NoSession]
    /\ exc' = [exc EXCEPT ![t] = NoExc]
    /\ seen' = [seen EXCEPT ![t] = {}]
    /\ h' = [h EXCEPT ![t] = [NoHistory EXCEPT !.tag = nEntries + 1]]
    /\ UNCHANGED <<globals, db, nextId>>

\* A caller of the context manager outside the routes.
Enter(t) ==
    /\ \E r \in Requests : Begin(t, r, MaxEntries)
    /\ UNCHANGED web

\* Lines 81-86, one turn of the while loop: SessionLocal(), then SELECT 1.
\*   "ctor"  SessionLocal() raises: session keeps its value (None)
\*   "probe" the session is constructed and the probe raises
\*   "ok"    both return: break
\* Lines 105-106: the loop ended without a break and session is None.
Attempt(t) ==
    /\ pc[t] = "try"
    /\ IF retry_count[t] < max_retries
       THEN \E o \in {"ctor", "probe", "ok"} :
              LET k == Len(h[t].attempts) + 1
              IN  /\ h' = [h EXCEPT ![t].attempts = Append(@, o),
                                    ![t].made = IF o = "ctor" THEN @
                                                ELSE @ \cup {k}]
                  /\ session' = [session EXCEPT
                                   ![t] = IF o = "ctor" THEN @
                                          ELSE NewSession(k)]
                  /\ IF o = "ok"
                     THEN /\ pc' = [pc EXCEPT ![t] = "block"]
                          /\ UNCHANGED exc
                     ELSE /\ pc' = [pc EXCEPT ![t] = "except"]
                          /\ exc' = [exc EXCEPT
                                       ![t] = AcquireError(retry_count[t] + 1)]
       ELSE /\ Propagate(t, FailedError)
            /\ h' = [h EXCEPT ![t].raised = FailedError]
            /\ UNCHANGED session
    /\ UNCHANGED <<globals, db, nextId, nEntries, req, retry_count, seen>>
    /\ UNCHANGED web

\* Lines 87-97, the handler of a failed attempt up to the engine reset:
\* close the partial session, count the retry, re-raise at the bound.
Except(t) ==
    /\ pc[t] = "except"
    /\ \E closeRaises \in IF session[t] # NoSession THEN BOOLEAN ELSE {FALSE} :
         IF closeRaises
         THEN /\ Propagate(t, CloseError)
              /\ h' = [h EXCEPT ![t].closed = CloseSession(@, session[t]),
                                ![t].raised = CloseError]
              /\ UNCHANGED <<session, retry_count>>
         ELSE /\ session' = [session EXCEPT ![t] = NoSession]
              /\ retry_count' = [retry_count EXCEPT ![t] = @ + 1]
              /\ IF Exhausted(retry_count[t] + 1)
                 THEN /\ Propagate(t, exc[t])
                      /\ h' = [h EXCEPT ![t].closed = CloseSession(@, session[t]),
                                        ![t].raised = exc[t]]
                 ELSE /\ pc' = [pc EXCEPT ![t] = "dispose"]
                      /\ h' = [h EXCEPT ![t].closed = CloseSession(@, session[t])]
                      /\ UNCHANGED exc
    /\ UNCHANGED <<globals, db, nextId, nEntries, req, seen>>
    /\ UNCHANGED web

\* Lines 99-100: if engine: engine.dispose()  (an Engine is always truthy).
Dispose(t) ==
    /\ pc[t] = "dispose"
    /\ \E raises \in BOOLEAN :
         IF raises
         THEN /\ Propagate(t, DisposeError)
              /\ h' = [h EXCEPT ![t].disposes = @ + 1,
                                ![t].raised = DisposeError]
         ELSE /\ pc' = [pc EXCEPT ![t] = "rebuild"]
              /\ h' = [h EXCEPT ![t].disposes = @ + 1]
              /\ UNCHANGED exc
    /\ UNCHANGED <<globals, db, nextId, nEntries, req, retry_count, session,
                   seen>>
    /\ UNCHANGED web

\* Line 101: engine = get_engine(), for a thread at `at` whose get_connector
\* read c in _connector. A Connector it builds is assigned to _connector; one
\* it did not build leaves _connector as it is.
RebuildOn(t, at, c) ==
    /\ pc[t] = at
    /\ \E f \in Faults :
         LET r == get_engine(env, c, f)
         IN  /\ lastCall' = CallRecord(r)
             /\ _connector' = IF r.built THEN r.connector ELSE _connector
             /\ nConnectors' = IF r.built THEN nConnectors + 1 ELSE nConnectors
             /\ IF r.raised
                THEN /\ Propagate(t, EngineError)
                     /\ h' = [h EXCEPT ![t].raised = EngineError]
                     /\ UNCHANGED <<engine, nEngines>>
                ELSE /\ nEngines' = nEngines + 1
                     /\ engine' = [id |-> nEngines + 1, kind |-> r.kind]
                     /\ pc' = [pc EXCEPT ![t] = "rebind"]
                     /\ h' = [h EXCEPT ![t].built = Append(@, nEngines + 1)]
                     /\ UNCHANGED exc
    /\ UNCHANGED <<env, proc, SessionLocal, db, nextId, nEntries, req,
                   retry_count, session, seen>>
    /\ UNCHANGED web

\* Line 101 with nothing running between get_connector's test of _connector
\* and its assignment.
Rebuild(t) == RebuildOn(t, "rebuild", _connector)

\* Mutant of Rebind: the factory is left bound to the disposed engine.
RebindStale(t) ==
    /\ pc[t] = "rebind"
    /\ pc' = [pc EXCEPT ![t] = "try"]
    /\ exc' = [exc EXCEPT ![t] = NoExc]
    /\ h' = [h EXCEPT ![t].rebinds = @ + 1]
    /\ UNCHANGED <<globals, db, nextId, nEntries, req, retry_count, session,
                   seen>>
    /\ UNCHANGED web

\* Lines 102-103: SessionLocal = sessionmaker(..., bind=engine). The handler
\* ends here: the exception it caught is dropped and the loop goes round.
Rebind(t) ==
    /\ pc[t] = "rebind"
    /\ SessionLocal' = sessionmaker(engine)
    /\ pc' = [pc EXCEPT ![t] = "try"]
    /\ exc' = [exc EXCEPT ![t] = NoExc]
    /\ h' = [h EXCEPT ![t].rebinds = @ + 1]
    /\ UNCHANGED <<env, proc, engine, _connector, nConnectors, nEngines,
                   lastCall, db, nextId, nEntries, req, retry_count, session,
                   seen>>
    /\ UNCHANGED web

\* Mutant of NewContact: the two fields change places.
NewContactSwapped(t) == [id |-> 0, name |-> req[t].address,
                         address |-> req[t].name, tag |-> h[t].tag]

\* A Contact the block constructs: no id until storage assigns one.
NewContact(t) == [id |-> 0, name |-> req[t].name, address |-> req[t].address,
                  tag |-> h[t].tag]

\* How the block can end: the block of create_contact (main.py lines 89-97)
\* makes no call that reaches storage, the others do.
\* models.py lines 135-142: the three sample contacts.
Samples ==
    <<[name |-> "John Doe", address |-> "123 Main Street, New York, NY 10001"],
      [name |-> "Jane Smith", address |-> "456 Oak Avenue, Los Angeles, CA 90210"],
      [name |-> "Mike Johnson", address |-> "789 Pine Road, Chicago, IL 60601"]>>

\* Mutant of sample_contacts: the samples are added whatever the count.
sample_contacts_always(t, contact_count) ==
    [i \in 1..Len(Samples) |->
        [id |-> 0, name |-> Samples[i].name, address |-> Samples[i].address,
         tag |-> h[t].tag]]

\* models.py lines 131-150: the Contacts the block of seed_database adds,
\* given the count its query returned.
sample_contacts(t, contact_count) ==
    IF contact_count = 0
    THEN [i \in 1..Len(Samples) |->
             [id |-> 0, name |-> Samples[i].name,
              address |-> Samples[i].address, tag |-> h[t].tag]]
    ELSE <<>>

\* Mutant of Visible: a query also returns what other sessions have added
\* and not committed.
VisibleDirty(t) ==
    db[session[t].bind.kind]
        \cup UNION {{session[u].adds[i] : i \in 1..Len(session[u].adds)} :
                      u \in {v \in Threads \ {t} :
                                session[v].bind.kind = session[t].bind.kind}}

\* The rows a query of the session of thread t returns: those committed to
\* the backend of its engine. An add stays in the session that made it
\* (autoflush=False, line 59) until that session commits.
Visible(t) == db[session[t].bind.kind]

\* The entries of the other threads whose sessions hold adds that are not
\* committed, as the block of thread t runs.
Pending(t) == {h[u].tag : u \in {v \in Threads \ {t} : session[v].adds # <<>>}}

\* A query on a backend that has no contacts table raises at once
\* ("missing"), whatever else the environment does.
BlockOutcomes(t) ==
    IF route[t].path = "create" THEN {"ok"}
    ELSE IF /\ req[t].kind \in {"read", "delete", "seed"}
            /\ session[t].bind.kind \notin schema.tables
    THEN {"raise", "missing"}
    ELSE {"ok", "raise"}

\* Line 109, yield session: the caller's block runs on the session, and ends
\* by falling off its end or returning ("ok") or by raising ("raise").
\*   "add"    session.add(Contact(name, address)); the block may raise after
\*   "read"   session.query(Contact).all(): the committed rows of the backend
\*   "delete" main.py lines 116-123: the row with the id of the request is
\*            looked up and, when there is one, marked for deletion; the
\*            query is the call that can raise
\*   "probe"  main.py line 144: SELECT 1
Block(t) ==
    /\ pc[t] = "block"
    /\ \E o \in BlockOutcomes(t) :
         /\ h' = [h EXCEPT ![t].blockRuns = @ + 1, ![t].block = o,
                           ![t].pending = Pending(t)]
         /\ IF o = "ok"
            THEN /\ pc' = [pc EXCEPT ![t] = "commit"]
                 /\ UNCHANGED exc
            ELSE /\ pc' = [pc EXCEPT ![t] = "rollback"]
                 /\ exc' = [exc EXCEPT ![t] = IF o = "missing"
                                              THEN NoTableError
                                              ELSE BlockError]
         /\ LET rows == Visible(t)
                found == {r \in rows : r.id = route[t].id}
            IN  CASE req[t].kind = "add" ->
                       /\ session' = [session EXCEPT
                                        ![t].adds = Append(@, NewContact(t))]
                       /\ UNCHANGED seen
                  [] req[t].kind = "delete" /\ o = "ok" ->
                       /\ seen' = [seen EXCEPT ![t] = found]
                       /\ session' = [session EXCEPT
                                        ![t].dels = @ \cup {r.id : r \in found}]
                  [] req[t].kind = "read" ->
                       /\ seen' = [seen EXCEPT ![t] = rows]
                       /\ UNCHANGED session
                  [] req[t].kind = "seed" /\ o = "ok" ->
                       /\ seen' = [seen EXCEPT ![t] = rows]
                       /\ session' = [session EXCEPT
                                        ![t].adds = @ \o sample_contacts(
                                                       t, Cardinality(rows))]
                  [] OTHER -> UNCHANGED <<session, seen>>
    /\ UNCHANGED <<globals, db, nextId, nEntries, req,
                   retry_count>>
    /\ UNCHANGED web

\* Mutant of Inserted: the rows are stored without an id.
InsertedNoId(adds, first) == {adds[i] : i \in 1..Len(adds)}

\* The rows a commit inserts: storage numbers the pending adds from `first`.
Inserted(adds, first) ==
    {[adds[i] EXCEPT !.id = first + i - 1] : i \in 1..Len(adds)}

\* Mutant of Deleted: the commit drops the deletes that are pending.
DeletedNone(rows, ids) == rows

\* The rows a commit leaves: those whose id is not marked for deletion.
Deleted(rows, ids) == {r \in rows : r.id \notin ids}

\* Mutant of Rejected: the columns are nullable and the table is there.
RejectedNever(t) == FALSE

\* The flush of the commit is refused by the backend: there are writes and
\* the contacts table is missing, or a Contact to insert has None in a
\* column declared nullable=False (lines 17-18). A view's fields are strs,
\* never None (main.py lines 72-73).
Rejected(t) ==
    LET s == session[t]
    IN  \/ /\ s.adds # <<>> \/ s.dels # {}
           /\ s.bind.kind \notin schema.tables
        \/ /\ route[t].path = None
           /\ \E i \in 1..Len(s.adds) :
                 s.adds[i].name = None \/ s.adds[i].address = None

\* Line 110: session.commit(). A commit that raises (lines 111-114) leaves
\* storage as it was and goes on to the rollback.
Commit(t) ==
    /\ pc[t] = "commit"
    /\ LET s == session[t]
           k == s.bind.kind
       IN  \E raises \in IF Rejected(t) THEN {TRUE} ELSE BOOLEAN :
             IF raises
             THEN /\ pc' = [pc EXCEPT ![t] = "rollback"]
                  /\ exc' = [exc EXCEPT ![t] = CommitError]
                  /\ h' = [h EXCEPT ![t].commits = @ + 1]
                  /\ UNCHANGED <<db, nextId, session>>
             ELSE /\ db' = [db EXCEPT ![k] = Deleted(@, s.dels)
                                                \cup Inserted(s.adds, nextId[k])]
                  /\ nextId' = [nextId EXCEPT ![k] = @ + Len(s.adds)]
                  /\ session' = [session EXCEPT ![t].adds = <<>>,
                                                ![t].dels = {}]
                  /\ h' = [h EXCEPT ![t].commits = @ + 1,
                                    ![t].committed = TRUE,
                                    ![t].newIds =
                                        [i \in 1..Len(s.adds) |->
                                            nextId[k] + i - 1]]
                  /\ pc' = [pc EXCEPT ![t] = "finally"]
                  /\ UNCHANGED exc
    /\ UNCHANGED <<globals, nEntries, req, retry_count, seen>>
    /\ UNCHANGED web

\* Mutant of Rollback: the handler commits what is pending for rolling back.
RollbackCommits(t) ==
    /\ pc[t] = "rollback"
    /\ LET s == session[t]
           k == s.bind.kind
       IN  /\ db' = [db EXCEPT ![k] = @ \cup Inserted(s.adds, nextId[k])]
           /\ nextId' = [nextId EXCEPT ![k] = @ + Len(s.adds)]
    /\ session' = [session EXCEPT ![t].adds = <<>>]
    /\ h' = [h EXCEPT ![t].rollbacks = @ + 1]
    /\ pc' = [pc EXCEPT ![t] = "finally"]
    /\ UNCHANGED <<globals, nEntries, req, retry_count, exc, seen>>
    /\ UNCHANGED web

\* Mutant of Rollback: the handler rolls back and goes round the retry loop
\* again for raising.
RollbackRetries(t) ==
    /\ pc[t] = "rollback"
    /\ session' = [session EXCEPT ![t].adds = <<>>, ![t].dels = {}]
    /\ retry_count' = [retry_count EXCEPT ![t] = @ + 1]
    /\ h' = [h EXCEPT ![t].rollbacks = @ + 1]
    /\ pc' = [pc EXCEPT ![t] = "try"]
    /\ UNCHANGED <<globals, db, nextId, nEntries, req, exc, seen>>
    /\ UNCHANGED web

\* Lines 111-114: session.rollback(), then raise. A rollback that raises
\* replaces the exception in flight.
Rollback(t) ==
    /\ pc[t] = "rollback"
    /\ \E raises \in BOOLEAN :
         exc' = [exc EXCEPT ![t] = IF raises THEN RollbackError ELSE @]
    /\ session' = [session EXCEPT ![t].adds = <<>>, ![t].dels = {}]
    /\ h' = [h EXCEPT ![t].rollbacks = @ + 1]
    /\ pc' = [pc EXCEPT ![t] = "finally"]
    /\ UNCHANGED <<globals, db, nextId, nEntries, req,
                   retry_count, seen>>
    /\ UNCHANGED web

\* Lines 115-117: session.close(); the generator ends, and what is in flight
\* (or the error of the close) reaches the caller.
Finally(t) ==
    /\ pc[t] = "finally"
    /\ \E raises \in BOOLEAN :
         LET e == IF raises THEN CloseError ELSE exc[t]
         IN  /\ Propagate(t, e)
             /\ h' = [h EXCEPT ![t].closed = CloseSession(@, session[t]),
                               ![t].raised = e]
    /\ UNCHANGED <<globals, db, nextId, nEntries, req, retry_count,
                   session, seen>>
    /\ UNCHANGED web

\* The with statement is over: the caller goes on.
Return(t) ==
    /\ pc[t] = "exit"
    /\ pc' = [pc EXCEPT ![t] = "idle"]
    /\ UNCHANGED <<globals, db, nextId, nEntries, req,
                   retry_count, session, exc, seen, h>>
    /\ UNCHANGED web

Next ==
    \/ Boot
    \/ \E t \in Threads : Enter(t)
    \/ \E t \in Threads : Attempt(t)
    \/ \E t \in Threads : Except(t)
    \/ \E t \in Threads : Dispose(t)
    \/ \E t \in Threads : Rebuild(t)
    \/ \E t \in Threads : Rebind(t)
    \/ \E t \in Threads : Block(t)
    \/ \E t \in Threads : Commit(t)
    \/ \E t \in Threads : Rollback(t)
    \/ \E t \in Threads : Finally(t)
    \/ \E t \in Threads : Return(t)

Spec == Init /\ [][Next]_vars

(***************************************************************************)
(* get_engine on its own: every environment over the eight names, the      *)
(* import of models.py and direct calls of get_engine().                   *)
(***************************************************************************)
InitEngine == InitOn({1}, Environments)

NextEngine ==
    \/ Boot
    \/ GetEngineCall

SpecEngine == InitEngine /\ [][NextEngine]_vars

(***************************************************************************)
(* Properties of get_db_session_context.                                   *)
(***************************************************************************)
\* Control is back in the caller of the with statement.
Exited(t) == pc[t] = "exit"

\* The session is in the hands of the caller's block, or was.
Yielded(t) == pc[t] \in {"block", "commit", "rollback", "finally"}
              \/ (Exited(t) /\ h[t].blockRuns > 0)

\* Every acquisition attempt of the entry failed.
AllFailed(t) == \A i \in 1..Len(h[t].attempts) : h[t].attempts[i] # "ok"

\* C1: an entry makes at most 3 acquisition attempts; when all 3 fail the
\* caller receives the error of the third attempt and its block never runs;
\* the block only ever runs on a session whose probe succeeded.
C1_ThreeAttemptsThenLastError ==
    \A t \in Threads :
        /\ Len(h[t].attempts) <= 3
        /\ (Exited(t) /\ Len(h[t].attempts) = 3 /\ AllFailed(t))
              => (h[t].raised = AcquireError(3) /\ h[t].blockRuns = 0)
        /\ Yielded(t)
              => /\ h[t].attempts[Len(h[t].attempts)] = "ok"
                 /\ session[t].id = Len(h[t].attempts)

\* The first attempt of the entry failed and the second succeeded.
FailedOnceThenOk(t) ==
    /\ Len(h[t].attempts) = 2
    /\ h[t].attempts[1] # "ok"
    /\ h[t].attempts[2] = "ok"

\* The errors that can still reach the caller once a session was acquired:
\* those of the block, the commit, the rollback and the close.
BlockPhaseErrors == {BlockError, CommitError, RollbackError, CloseError}

\* C2: after one failed attempt and a successful second one, the engine was
\* disposed and rebuilt exactly once, the block runs once, on a session made
\* by the rebuilt factory (bound to the rebuilt engine), and the context
\* manager commits when the block completes and raises nothing of its own:
\* no error reaches the caller unless the block, the commit, the rollback or
\* the close raised one.
C2_OneFailureThenSuccess ==
    \A t \in Threads :
        (FailedOnceThenOk(t) /\ pc[t] # "idle") =>
            /\ h[t].disposes = 1
            /\ Len(h[t].built) = 1
            /\ h[t].rebinds = 1
            /\ session[t].bind.id = h[t].built[1]
            /\ h[t].blockRuns = IF pc[t] = "block" THEN 0 ELSE 1
            /\ Exited(t) =>
                 /\ h[t].block = "ok" => h[t].commits = 1
                 /\ h[t].raised \in BlockPhaseErrors \cup {NoExc}
                 /\ h[t].raised = NoExc => h[t].committed
                 /\ (h[t].committed /\ h[t].raised # CloseError)
                        => h[t].raised = NoExc

C2_Witness ==
    \E t \in Threads :
        /\ FailedOnceThenOk(t)
        /\ Exited(t)
        /\ h[t].committed
        /\ h[t].raised = NoExc
        /\ req[t].kind = "add"

\* C3 as the specification states it: only the first failed attempt of an
\* entry disposes and rebuilds, so an entry rebuilds at most once.
C3_RebuildOnFirstFailureOnly ==
    \A t \in Threads :
        /\ h[t].disposes <= 1
        /\ Len(h[t].built) <= 1
        /\ h[t].rebinds <= 1

\* C3, amended: every failed attempt but the last allowed one (the first and
\* the second of the three) is followed by a dispose and a rebuild, so an
\* entry rebuilds at most twice; the third failure rebuilds nothing.
C3_RebuildOnEveryFailureButTheLast ==
    \A t \in Threads :
        /\ h[t].disposes <= 2
        /\ Len(h[t].built) <= h[t].disposes
        /\ h[t].rebinds <= Len(h[t].built)
        /\ pc[t] = "try" =>
             /\ h[t].disposes = Len(h[t].attempts)
             /\ h[t].rebinds = Len(h[t].attempts)
        /\ (Exited(t) /\ h[t].raised = AcquireError(3)) =>
             /\ h[t].disposes = 2
             /\ h[t].rebinds = 2

C3_Witness ==
    \E t \in Threads :
        /\ pc[t] = "try"
        /\ Len(h[t].attempts) = 2
        /\ h[t].rebinds = 2

\* The rows of entry number n, in any backend.
RowsOf(n) == {r \in UNION {db[k] : k \in Kinds} : r.tag = n}

\* Thread t takes a step of the error path of the with statement.
ErrorPathStep(t) ==
    /\ pc[t] \in {"block", "rollback", "finally"}
    /\ pc'[t] # pc[t]
    /\ h'[t].block = "raise"

\* C4: when the block raises after session.add, the context manager never
\* commits that session, the added row is in no storage and in no query
\* result, and no step of the error path changes storage: the rows committed
\* by earlier entries stay. Rows enter storage only from an entry whose block
\* completed, so the row is in no later session's view either.
C4_RollbackOnError ==
    /\ [](\A t \in Threads :
            h[t].block = "raise" =>
                /\ h[t].commits = 0
                /\ ~ h[t].committed
                /\ RowsOf(h[t].tag) = {}
                /\ \A u \in Threads : \A r \in seen[u] : r.tag # h[t].tag)
    /\ [][/\ \A t \in Threads : ErrorPathStep(t) => db' = db
          /\ \A k \in Kinds : \A r \in db'[k] \ db[k] :
                \E t \in Threads : h[t].tag = r.tag /\ h[t].block = "ok"]_vars

C4_Witness ==
    \E t \in Threads :
        /\ Exited(t)
        /\ req[t].kind = "add"
        /\ h[t].block = "raise"
        /\ h[t].rollbacks = 1
        /\ db[session[t].bind.kind] # {}

\* session.query(Contact).filter(Contact.id == id).first() on committed rows.
Fetch(rows, id) ==
    IF \E r \in rows : r.id = id THEN CHOOSE r \in rows : r.id = id
    ELSE [id |-> 0, name |-> None, address |-> None, tag |-> 0]

\* C5: when the block completes without error the context manager calls
\* commit exactly once; after a commit that returned, the contact the block
\* added is in storage: fetching it by the id storage assigned returns one
\* row with that id, which is not null, and the name and address given.
C5_CommitRoundTrip ==
    \A t \in Threads :
        /\ (h[t].block = "ok" /\ pc[t] \in {"finally", "exit"})
              => h[t].commits = 1
        /\ h[t].block # "ok" => ~ h[t].committed
        /\ (h[t].committed /\ req[t].kind = "add" /\ pc[t] \in {"finally", "exit"})
              => /\ Len(h[t].newIds) = 1
                 /\ h[t].newIds[1] # 0
                 /\ LET rows == db[session[t].bind.kind]
                        got  == Fetch(rows, h[t].newIds[1])
                    IN  /\ got.id = h[t].newIds[1]
                        /\ got.name = req[t].name
                        /\ got.address = req[t].address
                        /\ got.tag = h[t].tag
                        /\ Cardinality({r \in rows : r.id = got.id}) = 1

C5_Witness ==
    \E t \in Threads :
        /\ Exited(t)
        /\ req[t].kind = "add"
        /\ h[t].committed
        /\ h[t].raised = NoExc
        /\ Cardinality(db[session[t].bind.kind]) = 2

\* C6: when control returns to the caller, whatever the exit path, close has
\* been called on every session the entry constructed.
C6_EverySessionClosed ==
    \A t \in Threads : Exited(t) => h[t].made \subseteq h[t].closed

C6_Witness ==
    \E t \in Threads :
        /\ Exited(t)
        /\ Cardinality(h[t].made) = 3
        /\ h[t].raised = RollbackError

\* C7: when the block raises E the session is rolled back, and the error
\* that reaches the caller is E, whatever the rollback and the close do.
C7_OriginalErrorPropagates ==
    \A t \in Threads :
        (Exited(t) /\ h[t].block = "raise") =>
            /\ h[t].rollbacks = 1
            /\ h[t].raised = BlockError

(***************************************************************************)
(* Properties of get_engine.                                               *)
(***************************************************************************)
\* get_engine() has been called.
Called == lastCall.path # None

\* C8: no exception leaves get_engine, and whenever a step of the
\* construction raised, get_engine returned a local-file engine.
C8_GetEngineNeverRaises ==
    /\ ~ lastCall.raised
    /\ lastCall.threw => lastCall.kind = "sqlite"

\* C9: get_engine takes the managed-connector path exactly when the four
\* configuration values are all present; with one of them absent it returns
\* a local-file engine and the connector is never called nor built.
C9_ManagedIffAllFourPresent ==
    Called =>
        /\ lastCall.path = "managed" <=> ManagedKeys \subseteq env
        /\ ~ (ManagedKeys \subseteq env) =>
              /\ lastCall.kind = "sqlite"
              /\ lastCall.read = {}
              /\ _connector = 0
              /\ nConnectors = 0

\* C10 as the specification states it: with exactly INSTANCE_CONNECTION_NAME,
\* DB_USER, DB_PASS and DB_NAME set, get_engine takes the managed-connector
\* path and the connector reads these four names.
C10_BareNamesSelectManaged ==
    (Called /\ env = BareKeys) =>
        /\ lastCall.path = "managed"
        /\ lastCall.read = BareKeys

\* C10, amended: the four names are the CONTACTS_-prefixed ones. get_engine
\* takes the managed-connector path exactly when these four are set, the
\* connector then reads these four, and the names without the prefix are
\* never read and select nothing.
C10_PrefixedNamesSelectManaged ==
    Called =>
        /\ lastCall.path = "managed" <=> ManagedKeys \subseteq env
        /\ lastCall.path = "managed" => lastCall.read = ManagedKeys
        /\ lastCall.read \cap BareKeys = {}
        /\ env \subseteq BareKeys => lastCall.path = "local"

C10_Witness ==
    /\ Called
    /\ env = ManagedKeys
    /\ lastCall.path = "managed"
    /\ lastCall.kind = "mysql"
    /\ lastCall.read = ManagedKeys

(***************************************************************************)
(* main.py: validate_contact                                               *)
(***************************************************************************)
\* The longest str a form field or an argument holds.
MaxLen == 6

\* The characters of a str: one that str.strip() removes and one it keeps.
Whitespace == {" "}

Chars == Whitespace \cup {"x"}

Strings == UNION {[1..n -> Chars] : n \in 0..MaxLen}

RECURSIVE lstrip(_)
lstrip(s) == IF s # <<>> /\ Head(s) \in Whitespace THEN lstrip(Tail(s)) ELSE s

RECURSIVE rstrip(_)
rstrip(s) == IF s # <<>> /\ s[Len(s)] \in Whitespace
             THEN rstrip(SubSeq(s, 1, Len(s) - 1)) ELSE s

\* str.strip(): leading and trailing whitespace removed.
strip(s) == rstrip(lstrip(s))

\* The truth value of a str or None: None and '' are false.
Truthy(s) == s # NoString /\ s # <<>>

\* Mutant of validate_contact: the lengths are taken without strip().
validate_contact_raw(name, address) ==
    LET msg == [name |->
                   IF ~Truthy(name) \/ ~Truthy(strip(name))
                   THEN "Name is required"
                   ELSE IF Len(name) < 2
                   THEN "Name must be at least 2 characters long"
                   ELSE None,
                address |->
                   IF ~Truthy(address) \/ ~Truthy(strip(address))
                   THEN "Address is required"
                   ELSE IF Len(address) < 5
                   THEN "Address must be at least 5 characters long"
                   ELSE None]
    IN  [k \in {f \in {"name", "address"} : msg[f] # None} |-> msg[k]]

\* validate_contact(name, address): the dict of errors, one entry per field
\* that fails (lines 27-41).
validate_contact(name, address) ==
    LET msg == [name |->
                   IF ~Truthy(name) \/ ~Truthy(strip(name))
                   THEN "Name is required"
                   ELSE IF Len(strip(name)) < 2
                   THEN "Name must be at least 2 characters long"
                   ELSE None,
                address |->
                   IF ~Truthy(address) \/ ~Truthy(strip(address))
                   THEN "Address is required"
                   ELSE IF Len(strip(address)) < 5
                   THEN "Address must be at least 5 characters long"
                   ELSE None]
    IN  [k \in {f \in {"name", "address"} : msg[f] # None} |-> msg[k]]

\* validate_contact called on its own, as tests/test_routes.py calls it: the
\* arguments are route[t].name and route[t].address, the dict returned is
\* resp[t].errors.
ValidateCall(t) ==
    /\ resp[t].page = None
    /\ resp' = [resp EXCEPT
                  ![t] = [NoResp EXCEPT
                            !.page = "validate_contact",
                            !.errors = validate_contact(route[t].name,
                                                        route[t].address)]]
    /\ UNCHANGED <<globals, db, nextId, nEntries, locals, route, observed,
                   shut, schema, factory>>

\* Every pair of arguments: a str of at most MaxLen characters, or None.
InitValidate ==
    /\ InitLayer({1}, {{}})
    /\ db = [k \in Kinds |-> {}]
    /\ nextId = [k \in Kinds |-> 1]
    /\ schema = Migrated
    /\ route \in {[t \in {1} |-> [NoRoute EXCEPT !.name = n, !.address = a]] :
                    n \in Strings \cup {NoString},
                    a \in Strings \cup {NoString}}

NextValidate == \E t \in Threads : ValidateCall(t)

SpecValidate == InitValidate /\ [][NextValidate]_vars

(***************************************************************************)
(* Properties of validate_contact.                                         *)
(***************************************************************************)
\* The argument with surrounding whitespace removed; None counts as ''.
Trimmed(s) == IF s = NoString THEN <<>> ELSE strip(s)

\* C11: validate_contact(name, address) returns a mapping that has the key
\* 'name' exactly when the trimmed name has fewer than 2 characters, with
\* 'Name is required' when the name is missing or blank and 'Name must be at
\* least 2 characters long' otherwise; the key 'address' exactly when the
\* trimmed address has fewer than 5 characters, with 'Address is required' or
\* 'Address must be at least 5 characters long'; each field is judged on its
\* own, and the mapping is empty exactly when both lengths are reached.
C11_ValidateMatchesReference ==
    \A t \in Threads :
        resp[t].page = "validate_contact" =>
            LET e == resp[t].errors
                n == Trimmed(route[t].name)
                a == Trimmed(route[t].address)
            IN  /\ DOMAIN e \subseteq {"name", "address"}
                /\ ("name" \in DOMAIN e) <=> (Len(n) < 2)
                /\ ("name" \in DOMAIN e) =>
                      e["name"] = IF Len(n) = 0 THEN "Name is required"
                                  ELSE "Name must be at least 2 characters long"
                /\ ("address" \in DOMAIN e) <=> (Len(a) < 5)
                /\ ("address" \in DOMAIN e) =>
                      e["address"] =
                          IF Len(a) = 0 THEN "Address is required"
                          ELSE "Address must be at least 5 characters long"
                /\ (DOMAIN e = {}) <=> (Len(n) >= 2 /\ Len(a) >= 5)

\* A padded one-character name is reported too short while a padded
\* five-character address passes.
C11_Witness ==
    \E t \in Threads :
        /\ resp[t].page = "validate_contact"
        /\ route[t].name = <<" ", "x">>
        /\ route[t].address = <<" ", "x", "x", "x", "x", "x">>
        /\ DOMAIN resp[t].errors = {"name"}
        /\ resp[t].errors["name"] = "Name must be at least 2 characters long"

(***************************************************************************)
(* main.py: the routes                                                     *)
(***************************************************************************)
\* The requests that enter the session context manager in one run.
MaxRequests == 2

\* Values of the form fields name and address: missing, blank, too short,
\* and long enough with whitespace around it.
FormNames == {NoString, <<" ">>, <<"x">>, <<" ", "x", "x", " ">>}

FormAddresses == {<<"x", "x", "x", "x">>, <<" ", "x", "x", "x", "x", "x">>}

\* The ids a request names in /delete-contact/<int:contact_id>.
ContactIds == 1..MaxRequests

\* A row that was stored before the process started.
StoredRow == [id |-> 1, name |-> <<"x", "x">>,
              address |-> <<"x", "x", "x", "x", "x">>, tag |-> 0]

HttpMethods == {"GET", "POST"}

\* Mutant of Allowed: every route takes every method.
AllowedAny(path) == HttpMethods

\* The methods of the @app.route decorators (lines 44, 69, 110, 138).
Allowed(path) == CASE path = "home" -> {"GET"}
                   [] path = "create" -> {"GET", "POST"}
                   [] path = "delete" -> {"POST"}
                   [] path = "health" -> {"GET"}

\* request.form.get(field, ''): a missing field reads as ''.
FormGet(v) == IF v = NoString THEN <<>> ELSE v

\* Mutant of Rejects: only an error on the name stops the request.
RejectsNameOnly(errors) == "name" \in DOMAIN errors

\* Line 76, if errors: the dict is not empty.
Rejects(errors) == DOMAIN errors # {}

\* A block that takes no name and address.
Caller(kind) == [kind |-> kind, name |-> None, address |-> None]

\* The class of an exception, as the except clauses of the routes see it:
\* SQLAlchemy raises its own errors and wraps those of the DBAPI driver as
\* SQLAlchemyError; what the connector, the pool's creator or create_engine
\* raise otherwise is not one. Line 106 raises a plain Exception.
Classes(e) == IF e = FailedError THEN {"Exception"}
              ELSE {"SQLAlchemyError", "Exception"}

\* A request as it arrives: the route, the method, the id in the URL, the
\* form fields, and storage and the number of entries as it finds them.
Request(path, m, id, n, a) ==
    [path |-> path, method |-> m, id |-> id, name |-> n, address |-> a,
     before |-> [db |-> db, nEntries |-> nEntries]]

\* The request is served to its end: no view is running in the thread.
Served(t) == pc[t] = "idle" /\ resp[t].status # 0

\* Flask answers a method the route does not take with 405; no view runs.
MethodNotAllowed(t) ==
    /\ proc = "up"
    /\ pc[t] = "idle"
    /\ \E path \in {"home", "create", "delete", "health"} :
       \E m \in HttpMethods \ Allowed(path) :
       \E id \in IF path = "delete" THEN ContactIds ELSE {0} :
         /\ route' = [route EXCEPT
                         ![t] = Request(path, m, id, NoString, NoString)]
         /\ resp' = [resp EXCEPT ![t] = [NoResp EXCEPT !.status = 405,
                                                       !.page = "405"]]
    /\ UNCHANGED <<globals, db, nextId, nEntries, locals, observed, shut,
                   schema, factory>>

\* homepage(), lines 44-49: the view enters the context manager.
homepage(t) ==
    /\ "GET" \in Allowed("home")
    /\ Begin(t, Caller("read"), MaxRequests)
    /\ route' = [route EXCEPT
                    ![t] = Request("home", "GET", 0, NoString, NoString)]
    /\ resp' = [resp EXCEPT ![t] = NoResp]
    /\ UNCHANGED <<observed, shut, schema, factory>>

\* create_contact(), lines 69-88 and 107. GET renders the empty form. POST
\* strips the two fields and validates them: with errors the form is rendered
\* again, without errors the view enters the context manager.
create_contact_on(t, names, addresses) ==
    /\ proc = "up"
    /\ pc[t] = "idle"
    /\ \E m \in HttpMethods \cap Allowed("create") :
       \E n \in IF m = "POST" THEN names ELSE {NoString} :
       \E a \in IF m = "POST" THEN addresses ELSE {NoString} :
         LET name == strip(FormGet(n))
             address == strip(FormGet(a))
             errors == validate_contact(name, address)
         IN  /\ route' = [route EXCEPT ![t] = Request("create", m, 0, n, a)]
             /\ IF m = "GET"
                THEN /\ resp' = [resp EXCEPT
                                   ![t] = [NoResp EXCEPT
                                             !.status = 200,
                                             !.page = "create_contact.html"]]
                     /\ UNCHANGED <<globals, db, nextId, nEntries, locals>>
                ELSE IF Rejects(errors)
                THEN /\ resp' = [resp EXCEPT
                                   ![t] = [NoResp EXCEPT
                                             !.status = 200,
                                             !.page = "create_contact.html",
                                             !.errors = errors,
                                             !.name = name,
                                             !.address = address]]
                     /\ UNCHANGED <<globals, db, nextId, nEntries, locals>>
                ELSE /\ Begin(t, [kind |-> "add", name |-> name,
                                  address |-> address], MaxRequests)
                     /\ resp' = [resp EXCEPT ![t] = NoResp]
    /\ UNCHANGED <<observed, shut, schema, factory>>

\* The view, for the forms that SpecWeb submits.
create_contact(t) == create_contact_on(t, FormNames, FormAddresses)

\* delete_contact(contact_id), lines 110-114: the view enters the context
\* manager.
delete_contact(t) ==
    /\ \E m \in HttpMethods \cap Allowed("delete") :
       \E id \in ContactIds :
         route' = [route EXCEPT
                     ![t] = Request("delete", m, id, NoString, NoString)]
    /\ Begin(t, Caller("delete"), MaxRequests)
    /\ resp' = [resp EXCEPT ![t] = NoResp]
    /\ UNCHANGED <<observed, shut, schema, factory>>

\* health_check(), lines 138-143: the view enters the context manager.
health_check(t) ==
    /\ "GET" \in Allowed("health")
    /\ Begin(t, Caller("probe"), MaxRequests)
    /\ route' = [route EXCEPT
                    ![t] = Request("health", "GET", 0, NoString, NoString)]
    /\ resp' = [resp EXCEPT ![t] = NoResp]
    /\ UNCHANGED <<observed, shut, schema, factory>>

\* An exception left the view: Flask answers 500.
InternalServerError(flashed) ==
    [NoResp EXCEPT !.status = 500, !.page = "500", !.flash = flashed]

\* Mutant of homepage_returns: the view only has the SQLAlchemyError clause.
homepage_sqlalchemy_only(t, e, cls) ==
    IF e = NoExc
    THEN {[NoResp EXCEPT !.status = 200, !.page = "homepage.html",
                         !.contacts = seen[t]]}
    ELSE IF cls = "SQLAlchemyError"
    THEN {[NoResp EXCEPT !.status = 200, !.page = "homepage.html",
                         !.flash = <<"Database error">>]}
    ELSE {InternalServerError(<<>>)}

\* What homepage() returns when the with statement ended with e of class cls
\* (lines 47-66): the page with the rows read, or the page with no rows and
\* the message of the except clause that matched. The SQLAlchemyError clause
\* picks its message by the text of the error.
homepage_returns(t, e, cls) ==
    IF e = NoExc
    THEN {[NoResp EXCEPT !.status = 200, !.page = "homepage.html",
                         !.contacts = seen[t]]}
    ELSE IF cls = "SQLAlchemyError"
    THEN {[NoResp EXCEPT !.status = 200, !.page = "homepage.html",
                         !.flash = <<m>>] :
            m \in {"Database connection timeout. Please try again.",
                   "Database error"}}
    ELSE {[NoResp EXCEPT !.status = 200, !.page = "homepage.html",
                         !.flash = <<"An unexpected error occurred. Please try again.">>]}

\* What create_contact() returns (lines 89-104). The block flashed the
\* success message when it ran; an SQLAlchemyError renders the form again,
\* any other exception is not caught.
create_contact_returns(t, e, cls) ==
    LET flashed == IF h[t].blockRuns > 0
                   THEN <<"Contact created successfully!">> ELSE <<>>
    IN  IF e = NoExc
        THEN {[NoResp EXCEPT !.status = 302, !.page = "homepage",
                             !.flash = flashed]}
        ELSE IF cls = "SQLAlchemyError"
        THEN {[NoResp EXCEPT !.status = 200, !.page = "create_contact.html",
                             !.name = req[t].name, !.address = req[t].address,
                             !.flash = Append(flashed, "Error saving contact")]}
        ELSE {InternalServerError(flashed)}

\* What delete_contact() returns (lines 113-135). The block flashed the
\* outcome of the lookup when it reached it; an SQLAlchemyError is flashed
\* and the redirect follows, any other exception is not caught.
delete_contact_returns(t, e, cls) ==
    LET flashed == IF h[t].block # "ok" THEN <<>>
                   ELSE IF seen[t] # {}
                   THEN <<"Contact deleted successfully!">>
                   ELSE <<"Contact not found!">>
    IN  IF e = NoExc
        THEN {[NoResp EXCEPT !.status = 302, !.page = "homepage",
                             !.flash = flashed]}
        ELSE IF cls = "SQLAlchemyError"
        THEN {[NoResp EXCEPT !.status = 302, !.page = "homepage",
                             !.flash = Append(flashed, "Error deleting contact")]}
        ELSE {InternalServerError(flashed)}

\* Mutant of health_check_returns: the view only catches SQLAlchemyError.
health_check_sqlalchemy_only(t, e, cls) ==
    IF e = NoExc
    THEN {[NoResp EXCEPT !.status = 200, !.page = "healthy"]}
    ELSE IF cls = "SQLAlchemyError"
    THEN {[NoResp EXCEPT !.status = 503, !.page = "unhealthy",
                         !.errors = [error |-> e[1]]]}
    ELSE {InternalServerError(<<>>)}

\* What health_check() returns (lines 142-148): page is the 'status' of the
\* JSON body, errors holds its 'error' entry, str(e).
health_check_returns(t, e, cls) ==
    IF e = NoExc
    THEN {[NoResp EXCEPT !.status = 200, !.page = "healthy"]}
    ELSE {[NoResp EXCEPT !.status = 503, !.page = "unhealthy",
                         !.errors = [error |-> e[1]]]}

\* models.py lines 128-153: the with statement of seed_database is inside
\* try ... except Exception, whose handler prints; the function returns None.
seed_database_returns(t, e, cls) == {[NoResp EXCEPT !.page = "return"]}

\* The with statement of a view is over: the except clauses are matched
\* against what it raised and the view returns.
Respond(t) ==
    /\ pc[t] = "exit"
    /\ route[t].path # None
    /\ \E cls \in Classes(h[t].raised) :
       \E r \in CASE route[t].path = "home" ->
                       homepage_returns(t, h[t].raised, cls)
                  [] route[t].path = "create" ->
                       create_contact_returns(t, h[t].raised, cls)
                  [] route[t].path = "delete" ->
                       delete_contact_returns(t, h[t].raised, cls)
                  [] route[t].path = "health" ->
                       health_check_returns(t, h[t].raised, cls)
                  [] route[t].path = "seed_database" ->
                       seed_database_returns(t, h[t].raised, cls) :
         resp' = [resp EXCEPT ![t] = r]
    /\ pc' = [pc EXCEPT ![t] = "idle"]
    /\ UNCHANGED <<globals, db, nextId, nEntries, req, retry_count, session,
                   exc, seen, h, route, observed, shut, schema, factory>>

\* The application is started for local development (none of the CONTACTS_*
\* names set), on a contacts.db that is empty or holds a row of an earlier
\* run.
InitWeb ==
    /\ InitLayer({1}, {{}})
    /\ route = [t \in {1} |-> NoRoute]
    /\ schema = Migrated
    /\ \E rows \in {{}, {StoredRow}} :
         /\ db = [k \in Kinds |-> IF k = "sqlite" THEN rows ELSE {}]
         /\ nextId = [k \in Kinds |->
                         IF k = "sqlite" THEN 1 + Cardinality(rows) ELSE 1]

NextWeb ==
    \/ Boot
    \/ \E t \in Threads : MethodNotAllowed(t)
    \/ \E t \in Threads : homepage(t)
    \/ \E t \in Threads : create_contact(t)
    \/ \E t \in Threads : delete_contact(t)
    \/ \E t \in Threads : health_check(t)
    \/ \E t \in Threads : Attempt(t)
    \/ \E t \in Threads : Except(t)
    \/ \E t \in Threads : Dispose(t)
    \/ \E t \in Threads : Rebuild(t)
    \/ \E t \in Threads : Rebind(t)
    \/ \E t \in Threads : Block(t)
    \/ \E t \in Threads : Commit(t)
    \/ \E t \in Threads : Rollback(t)
    \/ \E t \in Threads : Finally(t)
    \/ \E t \in Threads : Respond(t)

SpecWeb == InitWeb /\ [][NextWeb]_vars

(***************************************************************************)
(* Properties of the routes.                                               *)
(***************************************************************************)
\* The last request of thread t was a POST of the create form, and it has
\* been served.
CreatePosted(t) ==
    Served(t) /\ route[t].path = "create" /\ route[t].method = "POST"

\* The form fields of the request fail validation.
Invalid(t) ==
    DOMAIN validate_contact(FormGet(route[t].name),
                            FormGet(route[t].address)) # {}

\* The request neither entered the context manager nor changed storage.
Untouched(t) ==
    /\ nEntries = route[t].before.nEntries
    /\ db = route[t].before.db

\* C12 as stated: a POST to /create-contact whose input fails validation never
\* reaches storage (no session is acquired, the stored rows are unchanged) and
\* is answered 200 with the form showing the submitted values and the
\* per-field error messages.
C12_InvalidRedisplaysSubmitted ==
    \A t \in Threads :
        (CreatePosted(t) /\ Invalid(t)) =>
            /\ Untouched(t)
            /\ resp[t].status = 200
            /\ resp[t].page = "create_contact.html"
            /\ resp[t].errors = validate_contact(FormGet(route[t].name),
                                                 FormGet(route[t].address))
            /\ resp[t].name = FormGet(route[t].name)
            /\ resp[t].address = FormGet(route[t].address)

\* C12, amended: a POST to /create-contact whose input fails validation never
\* reaches storage (no session is acquired, the stored rows are unchanged) and
\* is answered 200 with the form showing the submitted values with their
\* surrounding whitespace removed, and the per-field error messages.
C12_InvalidRedisplaysTrimmed ==
    \A t \in Threads :
        (CreatePosted(t) /\ Invalid(t)) =>
            /\ Untouched(t)
            /\ resp[t].status = 200
            /\ resp[t].page = "create_contact.html"
            /\ resp[t].errors = validate_contact(FormGet(route[t].name),
                                                 FormGet(route[t].address))
            /\ resp[t].name = Trimmed(route[t].name)
            /\ resp[t].address = Trimmed(route[t].address)

\* A padded name with an address that is too short, after an earlier request
\* stored a row: the form comes back with the name trimmed.
C12_Witness ==
    \E t \in Threads :
        /\ CreatePosted(t)
        /\ route[t].name = <<" ", "x", "x", " ">>
        /\ route[t].address = <<"x", "x", "x", "x">>
        /\ resp[t].name = <<"x", "x">>
        /\ DOMAIN resp[t].errors = {"address"}
        /\ db["sqlite"] # {}

\* The kind of the backend the session of the request was bound to.
BoundKind(t) == session[t].bind.kind

\* C13: a POST to /create-contact with a valid name and address, served
\* without a storage failure, persists exactly one new contact that carries
\* the trimmed name and the trimmed address: the store has one row more, the
\* rows it had are unchanged, and the response redirects to the list.
C13_ValidCreatePersistsOne ==
    \A t \in Threads :
        (CreatePosted(t) /\ ~Invalid(t) /\ h[t].raised = NoExc) =>
            LET k == BoundKind(t)
                old == route[t].before.db
            IN  /\ resp[t].status = 302
                /\ resp[t].page = "homepage"
                /\ \E row \in db[k] :
                     /\ db[k] = old[k] \cup {row}
                     /\ \A r \in old[k] : r.id # row.id
                     /\ row.name = Trimmed(route[t].name)
                     /\ row.address = Trimmed(route[t].address)
                /\ Cardinality(db[k]) = Cardinality(old[k]) + 1
                /\ \A j \in Kinds \ {k} : db[j] = old[j]

\* The padded form fields are stored trimmed beside the row that was there.
C13_Witness ==
    \E t \in Threads :
        /\ CreatePosted(t)
        /\ h[t].raised = NoExc
        /\ route[t].name = <<" ", "x", "x", " ">>
        /\ route[t].before.db["sqlite"] = {StoredRow}
        /\ Cardinality(db["sqlite"]) = 2
        /\ \E row \in db["sqlite"] : row.id = 2 /\ row.name = <<"x", "x">>

\* The last request of thread t was a POST to /delete-contact/<id>, and it
\* has been served.
DeletePosted(t) ==
    Served(t) /\ route[t].path = "delete" /\ route[t].method = "POST"

\* C14: a POST to /delete-contact/<id>, served without a storage failure,
\* leaves the store equal to the rows it had minus the row with that id: an
\* existing row is removed and no other; an id that is not stored changes
\* nothing and is answered with the notice 'Contact not found!', not with an
\* error, so repeating the request changes nothing; either way the response
\* redirects to the list. A request that did not commit changes nothing.
C14_DeleteRemovesExactlyThatRow ==
    \A t \in Threads :
        DeletePosted(t) =>
            LET old == route[t].before.db
                id == route[t].id
            IN  /\ h[t].committed =>
                     /\ db[BoundKind(t)] =
                            {r \in old[BoundKind(t)] : r.id # id}
                     /\ \A j \in Kinds \ {BoundKind(t)} : db[j] = old[j]
                /\ ~h[t].committed => db = old
                /\ h[t].raised = NoExc =>
                     /\ h[t].committed
                     /\ resp[t].status = 302
                     /\ resp[t].page = "homepage"
                     /\ resp[t].flash =
                            IF \E r \in old[BoundKind(t)] : r.id = id
                            THEN <<"Contact deleted successfully!">>
                            ELSE <<"Contact not found!">>
                     /\ (\A r \in old[BoundKind(t)] : r.id # id) => db = old

\* The row with id 1 was deleted by an earlier request; the request repeated
\* finds nothing, says so and redirects.
C14_Witness ==
    \E t \in Threads :
        /\ DeletePosted(t)
        /\ route[t].id = 1
        /\ nextId["sqlite"] = 2
        /\ route[t].before.db["sqlite"] = {}
        /\ db["sqlite"] = {}
        /\ h[t].raised = NoExc
        /\ resp[t].flash = <<"Contact not found!">>
        /\ resp[t].status = 302

\* C15: a GET of /delete-contact/<id> is answered 405 Method Not Allowed and
\* deletes nothing: no view runs, no session is acquired, storage is as the
\* request found it.
C15_GetDeleteIs405 ==
    \A t \in Threads :
        (route[t].path = "delete" /\ route[t].method = "GET") =>
            /\ pc[t] = "idle"
            /\ resp[t].status = 405
            /\ Untouched(t)

\* The GET names the id of a stored row, and the row is still there.
C15_Witness ==
    \E t \in Threads :
        /\ route[t].path = "delete"
        /\ route[t].method = "GET"
        /\ resp[t].status = 405
        /\ \E r \in db["sqlite"] : r.id = route[t].id

\* C16: GET / never answers 5xx because of storage: whatever the context
\* manager raises, the response is 200 with an empty list of contacts and an
\* error notice; without a failure it is 200 with the rows read.
C16_HomepageNever5xx ==
    \A t \in Threads :
        (Served(t) /\ route[t].path = "home" /\ route[t].method = "GET") =>
            /\ resp[t].status = 200
            /\ resp[t].page = "homepage.html"
            /\ h[t].raised # NoExc =>
                  (resp[t].contacts = {} /\ Len(resp[t].flash) = 1)
            /\ h[t].raised = NoExc =>
                  (resp[t].contacts = seen[t] /\ resp[t].flash = <<>>)

\* Three failed acquisitions over a store that holds a row: the list shown is
\* empty and a notice is flashed.
C16_Witness ==
    \E t \in Threads :
        /\ Served(t)
        /\ route[t].path = "home"
        /\ h[t].raised = AcquireError(3)
        /\ db["sqlite"] = {StoredRow}
        /\ resp[t].status = 200
        /\ resp[t].contacts = {}
        /\ resp[t].flash # <<>>

\* C17: GET /health answers 200 'healthy' exactly when the context manager
\* was acquired, the probe ran and the context exited, committed, without an
\* error; every failure, of whatever class, is answered 503 'unhealthy' with
\* the text of the error, and none leaves the view.
C17_HealthReflectsProbe ==
    \A t \in Threads :
        (Served(t) /\ route[t].path = "health" /\ route[t].method = "GET") =>
            LET clean == /\ h[t].attempts # <<>>
                         /\ h[t].attempts[Len(h[t].attempts)] = "ok"
                         /\ h[t].blockRuns = 1
                         /\ h[t].block = "ok"
                         /\ h[t].committed
                         /\ h[t].raised = NoExc
            IN  /\ resp[t].status \in {200, 503}
                /\ (resp[t].status = 200) <=> clean
                /\ (h[t].raised = NoExc) => clean
                /\ resp[t].status = 200 => resp[t].page = "healthy"
                /\ resp[t].status = 503 =>
                      /\ resp[t].page = "unhealthy"
                      /\ resp[t].errors = [error |-> h[t].raised[1]]

\* A rebuild of the engine that raised is reported as 503.
C17_Witness ==
    \E t \in Threads :
        /\ Served(t)
        /\ route[t].path = "health"
        /\ h[t].raised = EngineError
        /\ resp[t].status = 503
        /\ resp[t].errors = [error |-> "get_engine"]

\* C18: in the create and delete routes every exception the context manager
\* can raise for a storage failure (acquisition exhausted with an error of any
\* class, a failed rebuild of the engine, a failed commit or rollback) is
\* caught in the view and turned into a flash message with a safe render or
\* redirect; none leaves the view as a 5xx.
C18_StorageErrorsCaught ==
    \A t \in Threads :
        (Served(t) /\ route[t].path \in {"create", "delete"}
                   /\ route[t].method = "POST"
                   /\ h[t].tag > route[t].before.nEntries
                   /\ h[t].raised # NoExc) =>
            /\ resp[t].status \in {200, 302}
            /\ Len(resp[t].flash) >= 1

(***************************************************************************)
(* database/connector.py: cleanup_connector, and the interpreter's exit    *)
(***************************************************************************)
\* The runs of cleanup_connector explored: atexit runs it once for each time
\* it was registered, and it is a function anyone may call again.
MaxCleanups == 2

\* Mutant of cleanup_connector: close() is called outside any try.
cleanup_connector_unguarded(c, fails) ==
    IF c # 0
    THEN [closes |-> <<c>>, connector |-> IF fails THEN c ELSE 0,
          swallowed |-> 0, raised |-> fails]
    ELSE [closes |-> <<>>, connector |-> c, swallowed |-> 0, raised |-> FALSE]

\* cleanup_connector() (lines 26-38) with _connector = c; fails: close()
\* raises. The result is the close() calls made, _connector afterwards, the
\* errors caught, and whether an exception left the function.
cleanup_connector(c, fails) ==
    IF c # 0
    THEN [closes |-> <<c>>, connector |-> 0,
          swallowed |-> IF fails THEN 1 ELSE 0, raised |-> FALSE]
    ELSE [closes |-> <<>>, connector |-> c, swallowed |-> 0, raised |-> FALSE]

\* The interpreter begins to exit: no request is being served any more.
Exit ==
    /\ proc \in {"up", "crashed"}
    /\ \A t \in Threads : pc[t] = "idle"
    /\ proc' = "exiting"
    /\ shut' = [NoShutdown EXCEPT !.managed = _connector]
    /\ UNCHANGED <<env, engine, SessionLocal, _connector, nConnectors,
                   nEngines, lastCall, db, nextId, nEntries, locals, route,
                   resp, observed, schema, factory>>

\* One run of the exit hook.
Cleanup ==
    /\ proc = "exiting"
    /\ shut.runs < MaxCleanups
    /\ \E fails \in BOOLEAN :
         LET r == cleanup_connector(_connector, fails)
         IN  /\ _connector' = r.connector
             /\ shut' = [shut EXCEPT !.runs = @ + 1,
                                     !.closes = @ \o r.closes,
                                     !.swallowed = @ + r.swallowed,
                                     !.raised = @ \/ r.raised]
    /\ UNCHANGED <<env, proc, engine, SessionLocal, nConnectors, nEngines,
                   lastCall, db, nextId, nEntries, locals, route, resp,
                   observed, schema, factory>>

\* The import of models.py, direct calls of get_engine(), and the exit.
NextShutdown ==
    \/ Boot
    \/ GetEngineCall
    \/ Exit
    \/ Cleanup

SpecShutdown == InitEngine /\ [][NextShutdown]_vars

(***************************************************************************)
(* Properties of the exit hook.                                            *)
(***************************************************************************)
\* C19: at shutdown the exit hook closes the managed connector exactly once
\* if one was ever constructed and does nothing otherwise; an error of close
\* is swallowed, the hook never raises, and the reference is cleared, so that
\* a second run of the hook closes nothing.
C19_HookClosesOnce ==
    /\ ~shut.raised
    /\ proc = "exiting" => ((shut.managed # 0) <=> (nConnectors >= 1))
    /\ shut.runs = 0 => shut.closes = <<>>
    /\ shut.runs >= 1 =>
          /\ _connector = 0
          /\ shut.closes = IF shut.managed # 0 THEN <<shut.managed>> ELSE <<>>

\* The hook ran twice on a connector whose close raised: one close() call,
\* the error caught, the reference cleared.
C19_Witness ==
    /\ shut.runs = 2
    /\ shut.closes = <<1>>
    /\ shut.swallowed = 1
    /\ _connector = 0
    /\ ~shut.raised

(***************************************************************************)
(* Two request threads.                                                    *)
(***************************************************************************)
\* The entries to the context manager that two threads make in one run.
MaxRacing == 2

\* A request thread enters the context manager to read.
EnterRacing(t) ==
    /\ Begin(t, Caller("read"), MaxRacing)
    /\ UNCHANGED web

\* Line 101 up to connector.py line 14: get_connector reads _connector for its
\* test `if _connector is None`. Other threads run before the assignment of
\* line 17.
GetConnectorTest(t) ==
    /\ pc[t] = "rebuild"
    /\ pc' = [pc EXCEPT ![t] = "connect"]
    /\ observed' = [observed EXCEPT ![t] = _connector]
    /\ UNCHANGED <<globals, db, nextId, nEntries, req, retry_count, session,
                   exc, seen, h, route, resp, shut, schema, factory>>

\* The rest of line 101, from connector.py line 15 on, on the value the test
\* read.
GetConnectorBuild(t) == RebuildOn(t, "connect", observed[t])

\* Production (the four CONTACTS_* names set), two threads.
InitRacing == InitOn({1, 2}, {ManagedKeys})

\* The acquisition of a session by the two threads, lines 77-106: a thread is
\* followed until the session is yielded to its block or the error is raised
\* to its caller. The block, the commit and the close use neither
\* _connector nor engine.

NextRacing ==
    \/ Boot
    \/ \E t \in Threads : EnterRacing(t)
    \/ \E t \in Threads : Attempt(t)
    \/ \E t \in Threads : Except(t)
    \/ \E t \in Threads : Dispose(t)
    \/ \E t \in Threads : GetConnectorTest(t)
    \/ \E t \in Threads : GetConnectorBuild(t)
    \/ \E t \in Threads : Rebind(t)
    \/ \E t \in Threads : Return(t)

SpecRacing == InitRacing /\ [][NextRacing]_vars

(***************************************************************************)
(* Properties of get_connector.                                            *)
(***************************************************************************)
\* C20: there is one process-wide connector: get_connector constructs it at
\* most once and every caller gets that object until the exit hook runs, also
\* when request threads run get_engine concurrently in the retry path; so no
\* connector that was constructed is left unreferenced and unclosed.
C20_OneConnector ==
    /\ shut.runs = 0 => nConnectors <= 1
    /\ \A c \in 1..nConnectors :
          c = _connector \/ \E i \in 1..Len(shut.closes) : shut.closes[i] = c

(***************************************************************************)
(* Startup: main.py lines 10-16 call init_db() once, after the import of   *)
(* models.py, and print a warning if it raises; nothing calls it again.    *)
(***************************************************************************)

MaxStartupRequests == 2

\* models.py lines 120-123: Base.metadata.create_all(bind=engine) connects and
\* creates the contacts table on the backend of the engine if it is not
\* there; a failure to connect raises and leaves the backend as it was.
create_all(tables, kind, fails) == IF fails THEN tables ELSE tables \cup {kind}

\* main.py lines 10-16: try: init_db() except Exception: print(...). The
\* process goes on to serve requests either way.
init_db ==
    /\ proc = "up"
    /\ schema.init = None
    /\ \E fails \in BOOLEAN :
         schema' = [tables |-> create_all(schema.tables, engine.kind, fails),
                    init   |-> IF fails THEN "failed" ELSE "ok"]
    /\ UNCHANGED <<globals, db, nextId, nEntries, locals, route, resp,
                   observed, shut, factory>>

\* GET / on the started process: the module body of main.py has run.
homepage_started(t) ==
    /\ schema.init # None
    /\ "GET" \in Allowed("home")
    /\ Begin(t, Caller("read"), MaxStartupRequests)
    /\ route' = [route EXCEPT
                    ![t] = Request("home", "GET", 0, NoString, NoString)]
    /\ resp' = [resp EXCEPT ![t] = NoResp]
    /\ UNCHANGED <<observed, shut, schema, factory>>

\* A first start on a backend without the table, or a restart on one that
\* has it.
InitStartup ==
    /\ InitLayer({1}, Deployments)
    /\ route = [t \in {1} |-> NoRoute]
    /\ db = [k \in Kinds |-> {}]
    /\ nextId = [k \in Kinds |-> 1]
    /\ \E T \in {{}, Kinds} : schema = [tables |-> T, init |-> None]

NextStartup ==
    \/ Boot
    \/ init_db
    \/ \E t \in Threads : homepage_started(t)
    \/ \E t \in Threads : Attempt(t)
    \/ \E t \in Threads : Except(t)
    \/ \E t \in Threads : Dispose(t)
    \/ \E t \in Threads : Rebuild(t)
    \/ \E t \in Threads : Rebind(t)
    \/ \E t \in Threads : Block(t)
    \/ \E t \in Threads : Commit(t)
    \/ \E t \in Threads : Rollback(t)
    \/ \E t \in Threads : Finally(t)
    \/ \E t \in Threads : Respond(t)

SpecStartup == InitStartup /\ [][NextStartup]_vars

\* No call of the last request of thread t failed on the connection: it
\* returned, or the backend answered that the table does not exist.
Reachable(t) == h[t].raised \in {NoExc, NoTableError}

\* C21: after init_db failed at startup, every list request that finds
\* storage reachable is served from storage: HTTP 200 with the stored
\* contacts and no error notice, the process not having been restarted.
C21_ListServedOnceReachable ==
    \A t \in Threads :
        (/\ Served(t)
         /\ route[t].path = "home"
         /\ schema.init = "failed"
         /\ Reachable(t))
        => /\ resp[t].status = 200
           /\ resp[t].flash = <<>>
           /\ resp[t].contacts = route[t].before.db[BoundKind(t)]

(***************************************************************************)
(* Two request threads, each with its own session: what a query sees of    *)
(* the adds of the other (models.py line 59, main.py lines 87-97). The     *)
(* threads are followed from an acquisition that succeeds.                 *)
(***************************************************************************)

MaxIsolation == 3

\* One create and the list: which name a create carries makes no difference
\* to who sees its row.
RequestsIsolation == {r \in Requests : r.kind = "add" => r.name = "John Doe"}

EnterIsolation(t) ==
    /\ \E r \in RequestsIsolation : Begin(t, r, MaxIsolation)
    /\ UNCHANGED web

InitIsolation == InitOn({1, 2}, {{}})

NextIsolation ==
    \/ Boot
    \/ \E t \in Threads : EnterIsolation(t)
    \/ \E t \in Threads : Attempt(t)
    \/ \E t \in Threads : Block(t)
    \/ \E t \in Threads : Commit(t)
    \/ \E t \in Threads : Rollback(t)
    \/ \E t \in Threads : Finally(t)
    \/ \E t \in Threads : Return(t)

SpecIsolation == InitIsolation /\ [][NextIsolation]_vars

\* C22: in every interleaving of two entries, no session reads a row that
\* another session has added and not committed: every row a query returned
\* is a stored row of an entry that had committed when the query ran, and
\* storage holds no row of an entry that has not committed.
C22_NoDirtyRead ==
    /\ \A t \in Threads : \A r \in seen[t] :
          /\ r.id # 0
          /\ r.tag \notin h[t].pending
          /\ r.tag # h[t].tag
    /\ \A k \in Kinds : \A r \in db[k] : \A u \in Threads :
          (r.tag = h[u].tag) => h[u].committed

\* A query has run while the other thread's session held an uncommitted add,
\* and went on to return rows after that add was committed.
C22_Witness ==
    \E t \in Threads : \E u \in Threads \ {t} :
        /\ req[t].kind = "read"
        /\ h[t].block = "ok"
        /\ h[u].tag \in h[t].pending
        /\ h[u].committed
        /\ \E r \in db[BoundKind(t)] : r.tag = h[u].tag /\ r \notin seen[t]

(***************************************************************************)
(* Blocks that add a Contact built by hand, as tests/test_models.py lines  *)
(* 264-273 do: a field may be None, which the columns (models.py lines     *)
(* 17-18, nullable=False) do not admit.                                    *)
(***************************************************************************)

MaxConstraint == 2

RequestsConstraint ==
    [kind : {"add"}, name : Names \cup {None}, address : Addresses \cup {None}]

EnterConstraint(t) ==
    /\ \E r \in RequestsConstraint : Begin(t, r, MaxConstraint)
    /\ UNCHANGED web

NextConstraint ==
    \/ Boot
    \/ \E t \in Threads : EnterConstraint(t)
    \/ \E t \in Threads : Attempt(t)
    \/ \E t \in Threads : Except(t)
    \/ \E t \in Threads : Dispose(t)
    \/ \E t \in Threads : Rebuild(t)
    \/ \E t \in Threads : Rebind(t)
    \/ \E t \in Threads : Block(t)
    \/ \E t \in Threads : Commit(t)
    \/ \E t \in Threads : Rollback(t)
    \/ \E t \in Threads : Finally(t)
    \/ \E t \in Threads : Return(t)

SpecConstraint == Init /\ [][NextConstraint]_vars

\* The block of the last entry of thread t has run, adding a Contact with a
\* None field, and the context manager has been left.
NullAdded(t) ==
    /\ pc[t] \in {"exit", "idle"}
    /\ h[t].blockRuns > 0
    /\ req[t].name = None \/ req[t].address = None

\* C23: no stored contact has a null name or a null address; an entry whose
\* block added a Contact with a null field ends with an error raised to the
\* caller after one rollback, without a commit and without a row of it in
\* storage.
C23_NoNullStored ==
    /\ \A k \in Kinds : \A r \in db[k] : r.name # None /\ r.address # None
    /\ \A t \in Threads :
          NullAdded(t) => /\ ~h[t].committed
                          /\ h[t].rollbacks = 1
                          /\ h[t].raised # NoExc
                          /\ \A k \in Kinds : \A r \in db[k] : r.tag # h[t].tag

\* A block added a Contact with a null name, the commit was attempted and
\* refused, and the error reached the caller, while an earlier entry with
\* both fields set is stored.
C23_Witness ==
    \E t \in Threads :
        /\ NullAdded(t)
        /\ req[t].name = None
        /\ h[t].block = "ok"
        /\ h[t].commits = 1
        /\ h[t].raised = CommitError
        /\ \E k \in Kinds : db[k] # {}

(***************************************************************************)
(* The lengths of what is stored: String(100) and String(500) (models.py   *)
(* lines 17-18) against what validate_contact lets through (main.py lines  *)
(* 25-41). The local file backend does not enforce the declared length of  *)
(* a VARCHAR column.                                                       *)
(***************************************************************************)

NameColumn == 100
AddressColumn == 500

\* A name of two characters, and one a character longer than the column.
LongNames == {<<"x", "x">>, [i \in 1..(NameColumn + 1) |-> "x"]}

\* POST/GET /create-contact with such names.
create_contact_long(t) == create_contact_on(t, LongNames, FormAddresses)

NextLengths ==
    \/ Boot
    \/ \E t \in Threads : create_contact_long(t)
    \/ \E t \in Threads : delete_contact(t)
    \/ \E t \in Threads : Attempt(t)
    \/ \E t \in Threads : Except(t)
    \/ \E t \in Threads : Dispose(t)
    \/ \E t \in Threads : Rebuild(t)
    \/ \E t \in Threads : Rebind(t)
    \/ \E t \in Threads : Block(t)
    \/ \E t \in Threads : Commit(t)
    \/ \E t \in Threads : Rollback(t)
    \/ \E t \in Threads : Finally(t)
    \/ \E t \in Threads : Respond(t)

SpecLengths == InitWeb /\ [][NextLengths]_vars

\* C24: after any sequence of create and delete requests, every stored
\* contact has a name of 1 to 100 characters and an address of 1 to 500
\* characters.
C24_StoredLengths ==
    \A k \in Kinds : \A r \in db[k] :
        /\ 1 <= Len(r.name) /\ Len(r.name) <= NameColumn
        /\ 1 <= Len(r.address) /\ Len(r.address) <= AddressColumn

(***************************************************************************)
(* What the retry loop of get_db_session_context covers (models.py lines   *)
(* 81-117): the block and the commit come after the loop.                  *)
(***************************************************************************)

\* C25: an error raised in the caller's block or by the commit is never
\* retried: in every entry the block runs at most once and the commit at most
\* once, and once the block has run the acquisition that yielded is the last
\* attempt of the entry, every retry having come before it.
C25_BlockNeverRetried ==
    \A t \in Threads :
        /\ h[t].blockRuns <= 1
        /\ h[t].commits <= 1
        /\ h[t].blockRuns = 1 =>
              /\ pc[t] \in {"commit", "rollback", "finally", "exit", "idle"}
              /\ h[t].attempts[Len(h[t].attempts)] = "ok"
              /\ \A i \in 1..(Len(h[t].attempts) - 1) : h[t].attempts[i] # "ok"
              /\ h[t].disposes = Len(h[t].attempts) - 1
        /\ (h[t].commits = 1 /\ ~h[t].committed) => h[t].blockRuns = 1

\* An entry whose first acquisition failed and was retried, whose block then
\* raised, has ended with the block run once and its error at the caller;
\* and likewise for a commit that raised.
C25_Witness ==
    \E t \in Threads :
        /\ pc[t] = "exit"
        /\ Len(h[t].attempts) = 2
        /\ h[t].blockRuns = 1
        /\ \/ h[t].block = "raise" /\ h[t].raised = BlockError
           \/ h[t].commits = 1 /\ h[t].raised = CommitError

(***************************************************************************)
(* seed_database (models.py lines 126-153), called any number of times on  *)
(* the local backend, which is empty or holds the contact of               *)
(* tests/test_integration.py lines 133-136.                                *)
(***************************************************************************)

MaxSeeds == 2

ExistingRow == [id |-> 1, name |-> "Existing Contact",
                address |-> "Existing Address", tag |-> 0]

\* seed_database(): the function enters the context manager.
seed_database(t) ==
    /\ Begin(t, Caller("seed"), MaxSeeds)
    /\ route' = [route EXCEPT
                    ![t] = Request("seed_database", None, 0, NoString,
                                   NoString)]
    /\ resp' = [resp EXCEPT ![t] = NoResp]
    /\ UNCHANGED <<observed, shut, schema, factory>>

InitSeed ==
    /\ InitLayer({1}, {{}})
    /\ route = [t \in {1} |-> NoRoute]
    /\ schema = Migrated
    /\ \E rows \in {{}, {ExistingRow}} :
         /\ db = [k \in Kinds |-> IF k = "sqlite" THEN rows ELSE {}]
         /\ nextId = [k \in Kinds |->
                         IF k = "sqlite" THEN 1 + Cardinality(rows) ELSE 1]

NextSeed ==
    \/ Boot
    \/ \E t \in Threads : seed_database(t)
    \/ \E t \in Threads : Attempt(t)
    \/ \E t \in Threads : Except(t)
    \/ \E t \in Threads : Dispose(t)
    \/ \E t \in Threads : Rebuild(t)
    \/ \E t \in Threads : Rebind(t)
    \/ \E t \in Threads : Block(t)
    \/ \E t \in Threads : Commit(t)
    \/ \E t \in Threads : Rollback(t)
    \/ \E t \in Threads : Finally(t)
    \/ \E t \in Threads : Respond(t)

SpecSeed == InitSeed /\ [][NextSeed]_vars

\* The last call of seed_database by thread t is over.
Seeded(t) ==
    /\ pc[t] = "idle"
    /\ route[t].path = "seed_database"
    /\ resp[t].page # None

\* The rows are the three sample contacts, one row each, with distinct ids.
AreSamples(rows) ==
    /\ Cardinality(rows) = Len(Samples)
    /\ Cardinality({r.id : r \in rows}) = Len(Samples)
    /\ {[name |-> r.name, address |-> r.address] : r \in rows}
          = {Samples[i] : i \in 1..Len(Samples)}

\* C26: seed_database never raises to its caller; a call whose transaction
\* committed has inserted exactly the three sample contacts if it found the
\* table empty and nothing if it found a row, and a call that did not commit
\* has inserted nothing; so after any number of calls in sequence the table
\* holds what it held at first or the three samples, as after one call.
C26_SeedIdempotent ==
    /\ \A t \in Threads :
          Seeded(t) =>
             LET old == route[t].before.db
             IN  /\ resp[t].page = "return"
                 /\ h[t].raised = NoExc => h[t].committed
                 /\ IF h[t].committed /\ old[BoundKind(t)] = {}
                    THEN /\ AreSamples(db[BoundKind(t)])
                         /\ \A j \in Kinds \ {BoundKind(t)} : db[j] = old[j]
                    ELSE db = old
    /\ \A k \in Kinds :
          db[k] \in {{}, {ExistingRow}} \/ AreSamples(db[k])

\* seed_database has been called twice in sequence, both calls committed: the
\* first found the table empty, the second found the three samples and left
\* them as they were.
C26_Witness ==
    \E t \in Threads :
        /\ Seeded(t)
        /\ nEntries = 2
        /\ h[t].committed
        /\ AreSamples(route[t].before.db[BoundKind(t)])
        /\ db = route[t].before.db

(***************************************************************************)
(* Lines 101-103 run by two threads: `engine = get_engine()` and           *)
(* `SessionLocal = sessionmaker(..., bind=engine)` are two assignments to  *)
(* module globals, and the second reads `engine` before it stores; no lock *)
(* is held. get_engine itself is taken whole here.                         *)
(***************************************************************************)

MaxRebinds == 2

EnterRebind(t) == Begin(t, Caller("read"), MaxRebinds) /\ UNCHANGED web

\* Line 102, right-hand side: sessionmaker(..., bind=engine) is evaluated on
\* the engine the global names at that moment.
RebindRead(t) ==
    /\ pc[t] = "rebind"
    /\ pc' = [pc EXCEPT ![t] = "assign"]
    /\ factory' = [factory EXCEPT ![t] = sessionmaker(engine)]
    /\ UNCHANGED <<globals, db, nextId, nEntries, req, retry_count, session,
                   exc, seen, h, route, resp, observed, shut, schema>>

\* Line 102, the store to the global SessionLocal; the loop goes round
\* (line 104).
RebindAssign(t) ==
    /\ pc[t] = "assign"
    /\ SessionLocal' = factory[t]
    /\ pc' = [pc EXCEPT ![t] = "try"]
    /\ exc' = [exc EXCEPT ![t] = NoExc]
    /\ h' = [h EXCEPT ![t].rebinds = @ + 1]
    /\ UNCHANGED <<env, proc, engine, _connector, nConnectors, nEngines,
                   lastCall, db, nextId, nEntries, req, retry_count, session,
                   seen, route, resp, observed, shut, schema, factory>>

InitRebind == InitOn({1, 2}, {{}})

\* The acquisition of a session by the two threads, lines 77-106.
NextRebind ==
    \/ Boot
    \/ \E t \in Threads : EnterRebind(t)
    \/ \E t \in Threads : Attempt(t)
    \/ \E t \in Threads : Except(t)
    \/ \E t \in Threads : Dispose(t)
    \/ \E t \in Threads : Rebuild(t)
    \/ \E t \in Threads : RebindRead(t)
    \/ \E t \in Threads : RebindAssign(t)
    \/ \E t \in Threads : Return(t)

SpecRebind == InitRebind /\ [][NextRebind]_vars

\* No thread is between the dispose of line 100 and the store of line 102.
NoneRebuilding ==
    \A t \in Threads : pc[t] \notin {"dispose", "rebuild", "rebind", "assign"}

\* C27: whenever no thread is inside the dispose-and-rebuild step, the
\* process-wide session factory is bound to the current process-wide engine.
C27_FactoryBoundToEngine ==
    (proc = "up" /\ NoneRebuilding) => SessionLocal.bind = engine

(***************************************************************************)
(* The success notices of create_contact and delete_contact (main.py lines *)
(* 96 and 123) are flashed inside the with block; the commit is made when  *)
(* the block is left (models.py line 110).                                 *)
(***************************************************************************)

\* The response of the last request of thread t carries the notice.
Flashed(t, notice) ==
    \E i \in 1..Len(resp[t].flash) : resp[t].flash[i] = notice

\* C28: a success notice is issued only for a transaction that committed:
\* whenever a served create carries 'Contact created successfully!' or a
\* served delete carries 'Contact deleted successfully!', the insert or the
\* delete of that request has been committed to storage.
C28_SuccessOnlyIfCommitted ==
    \A t \in Threads :
        /\ (CreatePosted(t) /\ Flashed(t, "Contact created successfully!"))
              => /\ h[t].committed
                 /\ \E r \in db[BoundKind(t)] : r.tag = h[t].tag
        /\ (DeletePosted(t) /\ Flashed(t, "Contact deleted successfully!"))
              => /\ h[t].committed
                 /\ \A r \in db[BoundKind(t)] : r.id # route[t].id

(***************************************************************************)
(* The backend of the engine across rebuilds: line 101 calls get_engine()  *)
(* again, with its fallback to the local file (lines 50-54).               *)
(***************************************************************************)

\* C29: the backend kind chosen at startup is stable: while all four
\* configuration values are present, a process whose engine is a
\* managed-database engine keeps a managed-database engine through every
\* step, dispose-and-rebuild included, and every session it holds is bound
\* to a managed-database engine, never to the local file.
C29_BackendKindStable ==
    [][(UseCloudSql(env) /\ engine.kind = "mysql")
          => /\ engine'.kind = "mysql"
             /\ \A t \in Threads :
                   session'[t] # NoSession => session'[t].bind.kind = "mysql"
      ]_vars

====
